---- MODULE Spec2Model ----
(***************************************************************************)
(* Model of autonetkit/anm/edge.py: NmEdge, the edge handle of an overlay  *)
(* graph.  A handle is the value (overlay_id, src_id, dst_id, ekey); all   *)
(* data lives in anm.overlay_nx_graphs (networkx graphs) and is looked up  *)
(* again on every access.                                                  *)
(*                                                                         *)
(* Python values are tagged tuples: <<"None">>, <<"int", i>>,              *)
(* <<"bool", b>>, <<"str", s>>, <<"tuple", seq>>, <<"dict", f>>,           *)
(* <<"NmEdge", h>>, <<"NmPort", ov, node, intf>>, and a raised exception   *)
(* is <<"raise", name>>.                                                   *)
(***************************************************************************)
EXTENDS Integers, Sequences, FiniteSets, TLC

VARIABLES
    overlay_nx_graphs, \* anm.overlay_nx_graphs: overlay id -> edges -> attribute record
    port_data,         \* attribute records of the interfaces (NmPort), per overlay
    last,              \* the last call made and what it returned or raised
    ops                \* number of mutating calls made so far

vars == <<overlay_nx_graphs, port_data, last, ops>>

-----------------------------------------------------------------------------
(* Bounds and universes *)

MaxOps == 2

Nodes == {1, 2}
EKeys == {0, 1}
Intfs == {"eth0", "eth1"}
Overlays == {"phy", "ip", "phy2", "ip2"}
\* the overlays whose edges are added, removed, written and bound; "ip" and
\* "ip2" are the further layers of the cross-layer comparisons
CallOverlays == {"phy", "phy2"}

\* Attribute keys used by the calls.  "ekey" names an instance attribute of
\* the handle, "raw_interfaces" names a property of the handle.
Keys == {"bandwidth", "_ports", "raw_interfaces", "ekey"}
ScalarKeys == {"bandwidth", "ekey"}
DictKeys == {"_ports", "raw_interfaces"}

None == <<"None">>
PyInt(i) == <<"int", i>>
PyBool(b) == <<"bool", b>>
PyDict(m) == <<"dict", m>>
PyTuple(s) == <<"tuple", s>>
PyStr(s) == <<"str", s>>
PyEdge(h) == <<"NmEdge", h>>
Raise(e) == <<"raise", e>>
IsRaise(v) == v[1] = "raise"

ScalarVals == {PyInt(100)}

\* dicts node id -> interface id
EmptyMap == [n \in {} |-> "eth0"]
FullMap == [n \in Nodes |-> IF n = 1 THEN "eth0" ELSE "eth1"]
\* the dicts passed to set('_ports', ...) / set('raw_interfaces', ...)
SetMaps == {EmptyMap, FullMap}

Handles == [overlay_id : Overlays, src_id : Nodes, dst_id : Nodes, ekey : EKeys]
CallHandles == {h \in Handles : h.overlay_id \in CallOverlays}

-----------------------------------------------------------------------------
(* The overlay graph container (networkx), as the handle uses it *)

\* Graph.is_multigraph(): "phy" and "ip" are Graphs, "phy2" and "ip2" MultiGraphs
GraphIsMultigraph(ov) == ov \in {"phy2", "ip2"}

Min(a, b) == IF a <= b THEN a ELSE b
Max(a, b) == IF a <= b THEN b ELSE a

\* Where graph[u][v] (graph[u][v][key] in a multigraph) is stored: the
\* overlays are undirected, with one record for both orientations.
Slot(ov, u, v, key) ==
    LET k == IF GraphIsMultigraph(ov) THEN key ELSE 0
    IN  <<Min(u, v), Max(u, v), k>>

\* has_edge(u, v): some edge joins u and v
HasEdge(g, ov, u, v) == \E k \in EKeys : Slot(ov, u, v, k) \in DOMAIN g[ov]
\* MultiGraph.has_edge(u, v, key=key)
HasEdgeKey(g, ov, u, v, key) == Slot(ov, u, v, key) \in DOMAIN g[ov]

\* the record of a new edge: every edge is created with an empty '_ports' dict
NewRecord == [k \in Keys |-> IF k = "_ports" THEN PyDict(EmptyMap) ELSE None]

\* a record entry that holds the very dict object stored under '_ports'
SameAsPorts == <<"same object as", "_ports">>

\* record[key] = val.  Storing a new dict under '_ports' leaves an entry that
\* shared the old dict object with the old dict.
StoreItem(rec, key, val) ==
    [k \in Keys |->
        IF k = key THEN val
        ELSE IF key = "_ports" /\ rec[k] = SameAsPorts THEN rec["_ports"]
        ELSE rec[k]]

\* record.get(key): the value, None when unset
Lookup(rec, key) == IF rec[key] = SameAsPorts THEN rec["_ports"] ELSE rec[key]

-----------------------------------------------------------------------------
(* Collaborators: NmNode and NmPort *)

NmNode(ov, node_id) == <<"NmNode", ov, node_id>>
node_id(node) == node[3]
NmPort(ov, node, intf) == <<"NmPort", ov, node, intf>>

NewPortRecord == [k \in ScalarKeys |-> None]
\* NmPort.set(key, val)
port_set(p, port, key, val) ==
    [p EXCEPT ![<<port[2], port[3], port[4]>>][key] = val]
\* NmPort.get(key)
port_get(p, port, key) == p[<<port[2], port[3], port[4]>>][key]

-----------------------------------------------------------------------------
(* NmEdge *)

\* __key: (src_id, dst_id)
KeyWithEkey(h) == <<h.src_id, h.dst_id, h.ekey>>
Key(h) == <<h.src_id, h.dst_id>>

\* the builtin hash of a tuple of ints: a fold over its items in order
RECURSIVE TupleHash(_)
TupleHash(t) ==
    IF t = <<>> THEN 7
    ELSE (TupleHash(SubSeq(t, 1, Len(t) - 1)) * 31 + t[Len(t)]) % 65536

hash(h) == TupleHash(Key(h))

is_multigraph(h) == GraphIsMultigraph(h.overlay_id)

IsEdge(other) == other[1] = "NmEdge"
HasLen(other) == other[1] \in {"tuple", "str"}
PyLen(other) == Len(other[2])
\* tuple == other: a tuple equals only a tuple with the same items
TupleEq(t, other) == other[1] = "tuple" /\ other[2] = t

eq_except_Unsized(self, other) ==
    IF ~HasLen(other) THEN PyBool(FALSE)
    ELSE IF PyLen(other) = 2
    THEN PyBool(TupleEq(<<self.src_id, self.dst_id>>, other))
    ELSE IF PyLen(other) = 3
    THEN PyBool(TupleEq(<<self.src_id, self.dst_id, self.ekey>>, other))
    ELSE <<"fall through">>
\* __eq__, the except block of a multigraph self: len(other) picks the tuple
\* compared; no branch returns for another length
eq_except(self, other) ==
    IF ~HasLen(other) THEN Raise("TypeError")
    ELSE IF PyLen(other) = 2
    THEN PyBool(TupleEq(<<self.src_id, self.dst_id>>, other))
    ELSE IF PyLen(other) = 3
    THEN PyBool(TupleEq(<<self.src_id, self.dst_id, self.ekey>>, other))
    ELSE <<"fall through">>

\* __eq__, the last try block: (src_id, dst_id) against other's, or against other
eq_single(self, other) ==
    IF IsEdge(other)
    THEN PyBool(<<self.src_id, self.dst_id>> = <<other[2].src_id, other[2].dst_id>>)
    ELSE PyBool(TupleEq(<<self.src_id, self.dst_id>>, other))

eq_EkeyWhenSelfMulti(self, other) ==
    IF is_multigraph(self)
    THEN IF IsEdge(other)
         THEN PyBool(<<self.src_id, self.dst_id, self.ekey>>
                     = <<other[2].src_id, other[2].dst_id, other[2].ekey>>)
         ELSE IF eq_except(self, other) = <<"fall through">>
              THEN eq_single(self, other)
              ELSE eq_except(self, other)
    ELSE eq_single(self, other)
\* __eq__
eq(self, other) ==
    IF is_multigraph(self)
    THEN IF IsEdge(other)
         THEN IF is_multigraph(other[2])
              THEN PyBool(<<self.src_id, self.dst_id, self.ekey>>
                          = <<other[2].src_id, other[2].dst_id, other[2].ekey>>)
              ELSE PyBool(<<self.src_id, self.dst_id>>
                          = <<other[2].src_id, other[2].dst_id>>)
         ELSE IF eq_except(self, other) = <<"fall through">>
              THEN eq_single(self, other)
              ELSE eq_except(self, other)
    ELSE eq_single(self, other)

\* src / dst
src(h) == NmNode(h.overlay_id, h.src_id)
dst(h) == NmNode(h.overlay_id, h.dst_id)

\* s < t for tuples of ints: the first differing item decides, else the length
RECURSIVE TupleLess(_, _)
TupleLess(s, t) ==
    IF s = <<>> THEN t # <<>>
    ELSE IF t = <<>> THEN FALSE
    ELSE IF Head(s) # Head(t) THEN Head(s) < Head(t)
    ELSE TupleLess(Tail(s), Tail(t))

lt_PairsOnly(self, other) ==
    IF ~IsEdge(other) THEN Raise("AttributeError")
    ELSE PyBool(TupleLess(<<node_id(src(self)), node_id(dst(self))>>,
                          <<node_id(src(other[2])), node_id(dst(other[2]))>>))
\* __lt__
lt(self, other) ==
    IF ~IsEdge(other) THEN Raise("AttributeError")
    ELSE IF is_multigraph(self) /\ is_multigraph(other[2])
    THEN PyBool(TupleLess(<<node_id(src(self)), node_id(dst(self)), self.ekey>>,
                          <<node_id(src(other[2])), node_id(dst(other[2])), other[2].ekey>>))
    ELSE PyBool(TupleLess(<<node_id(src(self)), node_id(dst(self))>>,
                          <<node_id(src(other[2])), node_id(dst(other[2]))>>))

nonzero_NoKey(g, h) == HasEdge(g, h.overlay_id, h.src_id, h.dst_id)
\* __nonzero__
nonzero(g, h) ==
    IF is_multigraph(h)
    THEN HasEdgeKey(g, h.overlay_id, h.src_id, h.dst_id, h.ekey)
    ELSE HasEdge(g, h.overlay_id, h.src_id, h.dst_id)

\* the record graph[overlay_id][slot]
Record(g, h, ref) == g[h.overlay_id][ref[2]]

data_KeyZero(g, h) ==
    IF HasEdgeKey(g, h.overlay_id, h.src_id, h.dst_id, 0)
    THEN <<"record", Slot(h.overlay_id, h.src_id, h.dst_id, 0)>>
    ELSE Raise("KeyError")
\* _data: where the edge's record is, or KeyError
data(g, h) ==
    IF is_multigraph(h)
    THEN IF HasEdgeKey(g, h.overlay_id, h.src_id, h.dst_id, h.ekey)
         THEN <<"record", Slot(h.overlay_id, h.src_id, h.dst_id, h.ekey)>>
         ELSE Raise("KeyError")
    ELSE IF HasEdge(g, h.overlay_id, h.src_id, h.dst_id)
         THEN <<"record", Slot(h.overlay_id, h.src_id, h.dst_id, 0)>>
         ELSE Raise("KeyError")

\* self._data.get(key)
data_get(g, h, key) ==
    LET d == data(g, h)
    IN  IF IsRaise(d) THEN d ELSE Lookup(Record(g, h, d), key)

data_setitem_Copy(g, h, key, val) ==
    LET d == data(g, h)
    IN  IF IsRaise(d) THEN [res |-> d, g |-> g] ELSE [res |-> None, g |-> g]
\* self._data[key] = val: the result (None or the exception) and the graphs after
data_setitem(g, h, key, val) ==
    LET d == data(g, h)
    IN  IF IsRaise(d) THEN [res |-> d, g |-> g]
        ELSE [res |-> None,
              g |-> [g EXCEPT ![h.overlay_id][d[2]] = StoreItem(@, key, val)]]

RECURSIVE get(_, _, _)
\* raw_interfaces (getter)
raw_interfaces(g, h) == get(g, h, "_ports")

\* hasattr(self, key) (Python 2: false when the property raises)
hasattr(g, h, key) ==
    \/ key = "ekey"
    \/ key = "raw_interfaces" /\ ~IsRaise(raw_interfaces(g, h))

\* getattr(self, key), for a key hasattr accepts
getattr(g, h, key) ==
    IF key = "ekey" THEN PyInt(h.ekey) ELSE raw_interfaces(g, h)

\* get
get(g, h, key) ==
    IF hasattr(g, h, key) THEN getattr(g, h, key) ELSE data_get(g, h, key)

RECURSIVE set(_, _, _, _)
\* raw_interfaces (setter)
raw_interfaces_setter(g, h, value) == set(g, h, "_ports", value)

\* set
set(g, h, key, val) ==
    IF key = "raw_interfaces"
    THEN LET r == raw_interfaces_setter(g, h, val)
         IN  IF IsRaise(r.res) THEN r
             ELSE data_setitem(r.g, h, key, SameAsPorts)
    ELSE data_setitem(g, h, key, val)

\* self._ports: the dict stored under '_ports' in the edge's record
ports_attr(g, h) == data_get(g, h, "_ports")

bind_interface_Replace(g, h, node, interface) ==
    LET pm == ports_attr(g, h)
    IN  IF IsRaise(pm) THEN [res |-> pm, g |-> g]
        ELSE [res |-> None,
              g |-> [g EXCEPT ![h.overlay_id][data(g, h)[2]]["_ports"] =
                        PyDict([n \in {node_id(node)} |-> interface])]]
\* bind_interface: self._ports[node.id] = interface, in place
bind_interface(g, h, node, interface) ==
    LET pm == ports_attr(g, h)
    IN  IF IsRaise(pm) THEN [res |-> pm, g |-> g]
        ELSE [res |-> None,
              g |-> [g EXCEPT ![h.overlay_id][data(g, h)[2]]["_ports"] =
                        PyDict([n \in DOMAIN pm[2] \cup {node_id(node)} |->
                                   IF n = node_id(node) THEN interface ELSE pm[2][n]])]]

\* src_int
src_int(g, h) ==
    LET pm == get(g, h, "_ports")
    IN  IF IsRaise(pm) THEN pm
        ELSE IF h.src_id \notin DOMAIN pm[2] THEN Raise("KeyError")
        ELSE NmPort(h.overlay_id, h.src_id, pm[2][h.src_id])

\* dst_int
dst_int(g, h) ==
    LET pm == get(g, h, "_ports")
    IN  IF IsRaise(pm) THEN pm
        ELSE IF h.dst_id \notin DOMAIN pm[2] THEN Raise("KeyError")
        ELSE NmPort(h.overlay_id, h.dst_id, pm[2][h.dst_id])

\* the items of a dict keyed by node id, in ascending key order
RECURSIVE Items(_)
Items(m) ==
    IF DOMAIN m = {} THEN <<>>
    ELSE LET n == CHOOSE x \in DOMAIN m : \A y \in DOMAIN m : x <= y
         IN  <<<<n, m[n]>>>> \o Items([k \in DOMAIN m \ {n} |-> m[k]])

\* interfaces
interfaces(g, h) ==
    LET pm == get(g, h, "_ports")
    IN  IF IsRaise(pm) THEN pm
        ELSE LET its == Items(pm[2])
             IN  <<"list", [i \in 1..Len(its) |->
                               NmPort(h.overlay_id, its[i][1], its[i][2])]>>

apply_to_interfaces_SrcOnly(g, p, h, attribute) ==
    LET val == get(g, h, attribute)
        si == src_int(g, h)
    IN  IF IsRaise(val) THEN [res |-> val, p |-> p]
        ELSE IF IsRaise(si) THEN [res |-> si, p |-> p]
        ELSE [res |-> None, p |-> port_set(p, si, attribute, val)]
\* apply_to_interfaces: the result and the interface records after
apply_to_interfaces(g, p, h, attribute) ==
    LET val == get(g, h, attribute)
        si == src_int(g, h)
        di == dst_int(g, h)
    IN  IF IsRaise(val) THEN [res |-> val, p |-> p]
        ELSE IF IsRaise(si) THEN [res |-> si, p |-> p]
        ELSE IF IsRaise(di) THEN [res |-> di, p |-> port_set(p, si, attribute, val)]
        ELSE [res |-> None,
              p |-> port_set(port_set(p, si, attribute, val), di, attribute, val)]

-----------------------------------------------------------------------------
(* The calls *)

Handle(ov, u, v, k) == [overlay_id |-> ov, src_id |-> u, dst_id |-> v, ekey |-> k]
Call(op, h, args, res) == [op |-> op, self |-> h, args |-> args, res |-> res]

\* The topology after construction: "phy" has the edge (1, 2) bound to eth0
\* and eth1, "phy2" has the parallel edges (1, 2, 0) and (1, 2, 1).
InitGraphs ==
    [ov \in Overlays |->
        IF ov = "phy"
        THEN [s \in {<<1, 2, 0>>} |-> [NewRecord EXCEPT !["_ports"] = PyDict(FullMap)]]
        ELSE IF ov = "phy2"
        THEN [s \in {<<1, 2, 0>>, <<1, 2, 1>>} |-> NewRecord]
        ELSE [s \in {} |-> NewRecord]]

Init ==
    /\ overlay_nx_graphs = InitGraphs
    /\ port_data = [t \in Overlays \X Nodes \X Intfs |-> NewPortRecord]
    /\ last = Call("init", Handle("phy", 1, 2, 0), <<>>, None)
    /\ ops = 0

\* the container adds the edge (u, v[, key])
AddEdge(ov, u, v, k) ==
    /\ ops < MaxOps
    /\ Slot(ov, u, v, k) \notin DOMAIN overlay_nx_graphs[ov]
    /\ overlay_nx_graphs' =
         [overlay_nx_graphs EXCEPT ![ov] =
            [s \in DOMAIN @ \cup {Slot(ov, u, v, k)} |->
                IF s \in DOMAIN @ THEN @[s] ELSE NewRecord]]
    /\ last' = Call("add_edge", Handle(ov, u, v, k), <<>>, None)
    /\ ops' = ops + 1
    /\ UNCHANGED port_data

\* the container removes the edge (u, v[, key])
RemoveEdge(ov, u, v, k) ==
    /\ ops < MaxOps
    /\ Slot(ov, u, v, k) \in DOMAIN overlay_nx_graphs[ov]
    /\ overlay_nx_graphs' =
         [overlay_nx_graphs EXCEPT ![ov] =
            [s \in DOMAIN @ \ {Slot(ov, u, v, k)} |-> @[s]]]
    /\ last' = Call("remove_edge", Handle(ov, u, v, k), <<>>, None)
    /\ ops' = ops + 1
    /\ UNCHANGED port_data

\* edge.set(key, val)
Set(h, key, val) ==
    /\ ops < MaxOps
    /\ LET r == set(overlay_nx_graphs, h, key, val)
       IN  /\ overlay_nx_graphs' = r.g
           /\ last' = Call("set", h, <<key, val>>, r.res)
    /\ ops' = ops + 1
    /\ UNCHANGED port_data

\* edge.bind_interface(node, interface)
BindInterface(h, n, interface) ==
    /\ ops < MaxOps
    /\ LET r == bind_interface(overlay_nx_graphs, h, NmNode(h.overlay_id, n), interface)
       IN  /\ overlay_nx_graphs' = r.g
           /\ last' = Call("bind_interface", h, <<n, interface>>, r.res)
    /\ ops' = ops + 1
    /\ UNCHANGED port_data

\* edge.apply_to_interfaces(attribute)
ApplyToInterfaces(h, attribute) ==
    /\ ops < MaxOps
    /\ LET r == apply_to_interfaces(overlay_nx_graphs, port_data, h, attribute)
       IN  /\ port_data' = r.p
           /\ last' = Call("apply_to_interfaces", h, <<attribute>>, r.res)
    /\ ops' = ops + 1
    /\ UNCHANGED overlay_nx_graphs

SetVals(key) ==
    IF key \in DictKeys THEN {PyDict(m) : m \in SetMaps} ELSE ScalarVals

Next ==
    \/ \E h \in CallHandles : AddEdge(h.overlay_id, h.src_id, h.dst_id, h.ekey)
    \/ \E h \in CallHandles : RemoveEdge(h.overlay_id, h.src_id, h.dst_id, h.ekey)
    \/ \E h \in CallHandles, key \in Keys : \E val \in SetVals(key) : Set(h, key, val)
    \/ \E h \in CallHandles, n \in Nodes, i \in Intfs : BindInterface(h, n, i)
    \/ \E h \in CallHandles, a \in ScalarKeys : ApplyToInterfaces(h, a)

Spec == Init /\ [][Next]_vars

-----------------------------------------------------------------------------
(* Comparisons and hashing: pure in the handle and the kind of its overlay *)

Pairs == {PyTuple(<<u, v>>) : u \in Nodes, v \in Nodes}
Triples == {PyTuple(<<u, v, k>>) : u \in Nodes, v \in Nodes, k \in EKeys}
\* values that are neither a handle, a pair nor a triple
Unsupported ==
    {PyTuple(<<1, 2, 0, 0>>), PyTuple(<<1>>), PyStr(<<"1", "2">>),
     PyStr(<<"1", "2", "0", "0">>), PyInt(7), None}
Others == {PyEdge(h) : h \in Handles} \cup Pairs \cup Triples \cup Unsupported

\* The operands of one comparison are drawn first; no comparison reads the
\* edges, so the topology is the constructed one.
InitCmp ==
    /\ overlay_nx_graphs = InitGraphs
    /\ port_data = [t \in Overlays \X Nodes \X Intfs |-> NewPortRecord]
    /\ last \in {Call("operands", self, <<other>>, None) : self \in Handles, other \in Others}
    /\ ops = 0

\* self == other
Eq ==
    /\ last.op = "operands"
    /\ last' = Call("eq", last.self, last.args, eq(last.self, last.args[1]))
    /\ UNCHANGED <<overlay_nx_graphs, port_data, ops>>

\* self < other
Lt ==
    /\ last.op = "operands"
    /\ last' = Call("lt", last.self, last.args, lt(last.self, last.args[1]))
    /\ UNCHANGED <<overlay_nx_graphs, port_data, ops>>

\* hash(self)
Hash ==
    /\ last.op = "operands"
    /\ last' = Call("hash", last.self, <<>>, PyInt(hash(last.self)))
    /\ UNCHANGED <<overlay_nx_graphs, port_data, ops>>

NextCmp == Eq \/ Lt \/ Hash

SpecCmp == InitCmp /\ [][NextCmp]_vars

-----------------------------------------------------------------------------
(* Properties of equality, hashing and ordering (checked under SpecCmp) *)

SameEnds(a, b) == a.src_id = b.src_id /\ a.dst_id = b.dst_id
BothMulti(a, b) == GraphIsMultigraph(a.overlay_id) /\ GraphIsMultigraph(b.overlay_id)
SameKind(a, b) == GraphIsMultigraph(a.overlay_id) = GraphIsMultigraph(b.overlay_id)

\* C1: e1 == e2 between two edge handles, of the same overlay or of two
\* overlays, is true iff their (src_id, dst_id) match and, when both are in
\* multigraph overlays, their ekey matches too; overlay_id plays no part, and
\* ekey plays none once one of the two is in a simple-graph overlay.
C1_HandleEquality ==
    (last.op = "eq" /\ IsEdge(last.args[1])) =>
        LET a == last.self
            b == last.args[1][2]
        IN  last.res = PyBool(/\ SameEnds(a, b)
                              /\ BothMulti(a, b) => a.ekey = b.ekey)

\* two multigraph handles of different overlays, same ends, different ekey: unequal
C1_Witness ==
    /\ last.op = "eq"
    /\ IsEdge(last.args[1])
    /\ BothMulti(last.self, last.args[1][2])
    /\ last.self.overlay_id # last.args[1][2].overlay_id
    /\ SameEnds(last.self, last.args[1][2])
    /\ last.self.ekey # last.args[1][2].ekey
    /\ last.res = PyBool(FALSE)

\* C2: hash(e) depends on (src_id, dst_id) alone: every handle with the same
\* (src_id, dst_id) has the same hash whatever its ekey and overlay_id, and two
\* parallel edges (u, v, 0) and (u, v, 1) of one multigraph overlay are unequal
\* while their hashes are equal.
C2_HashOfEnds ==
    last.op = "hash" =>
        \A e \in Handles :
            SameEnds(last.self, e) =>
                /\ PyInt(hash(e)) = last.res
                /\ ( /\ e.overlay_id = last.self.overlay_id
                     /\ GraphIsMultigraph(e.overlay_id)
                     /\ e.ekey # last.self.ekey )
                   => eq(last.self, PyEdge(e)) = PyBool(FALSE)

\* the hash of the parallel edge (1, 2, 1) of "phy2" has been taken
C2_Witness ==
    /\ last.op = "hash"
    /\ last.self = Handle("phy2", 1, 2, 1)
    /\ last.res = PyInt(hash(Handle("phy2", 1, 2, 0)))
    /\ eq(last.self, PyEdge(Handle("phy2", 1, 2, 0))) = PyBool(FALSE)

\* (src node_id, dst node_id) first, then ekey between two multigraph handles
Before(a, b) ==
    \/ a.src_id < b.src_id
    \/ a.src_id = b.src_id /\ a.dst_id < b.dst_id
    \/ SameEnds(a, b) /\ BothMulti(a, b) /\ a.ekey < b.ekey

\* C3: among handles of one kind (all simple-graph or all multigraph), < is a
\* strict total order: irreflexive, transitive, and exactly one of a < b,
\* a == b, b < a holds; it compares (src node_id, dst node_id) first and ekey
\* only as a tiebreak between two multigraph handles.
C3_StrictTotalOrder ==
    (last.op = "lt" /\ IsEdge(last.args[1]) /\ SameKind(last.self, last.args[1][2])) =>
        LET a == last.self
            b == last.args[1][2]
            T == PyBool(TRUE)
        IN  /\ last.res = PyBool(Before(a, b))
            /\ lt(a, PyEdge(a)) = PyBool(FALSE)
            /\ Cardinality({r \in {<<1, last.res>>, <<2, eq(a, PyEdge(b))>>,
                                   <<3, lt(b, PyEdge(a))>>} : r[2] = T}) = 1
            /\ last.res = T =>
                 \A c \in Handles :
                    (SameKind(b, c) /\ lt(b, PyEdge(c)) = T) => lt(a, PyEdge(c)) = T

\* two parallel multigraph edges, ordered by ekey
C3_Witness ==
    /\ last.op = "lt"
    /\ IsEdge(last.args[1])
    /\ BothMulti(last.self, last.args[1][2])
    /\ SameEnds(last.self, last.args[1][2])
    /\ last.self.ekey < last.args[1][2].ekey
    /\ last.res = PyBool(TRUE)

\* C5 as claimed: == and < against a value that is neither a handle, a pair
\* nor a triple raise, for a multigraph and for a simple-graph handle.
C5_UnsupportedAlwaysRaises ==
    (last.op \in {"eq", "lt"} /\ last.args[1] \in Unsupported) => IsRaise(last.res)

\* C5: against a value that is neither a handle, a pair nor a triple, < raises
\* (AttributeError); == raises (TypeError) only for a multigraph handle and a
\* value without a length, and returns False in every other case.
C5_UnsupportedComparison ==
    (last.op \in {"eq", "lt"} /\ last.args[1] \in Unsupported) =>
        IF last.op = "lt" THEN last.res = Raise("AttributeError")
        ELSE IF is_multigraph(last.self) /\ ~HasLen(last.args[1])
        THEN last.res = Raise("TypeError")
        ELSE last.res = PyBool(FALSE)

\* a multigraph handle compared with == to a value that has no length
C5_Witness ==
    /\ last.op = "eq"
    /\ is_multigraph(last.self)
    /\ last.args[1] = None
    /\ last.res = Raise("TypeError")

-----------------------------------------------------------------------------
(* Properties of existence, attributes and port bindings (checked under Spec) *)

\* names hasattr finds on the handle itself
HandleAttrs == {"ekey", "raw_interfaces"}

\* the record of h's edge, for an edge that exists
RecordOf(g, h) == Record(g, h, data(g, h))

\* C4: after any additions and removals, bool(edge) is true iff the container
\* has the edge (src_id, dst_id), or (src_id, dst_id, ekey) in a multigraph
\* overlay; a handle of an edge just removed is false, one of an edge just
\* added is true.
C4_Existence ==
    /\ \A h \in Handles :
          nonzero(overlay_nx_graphs, h) =
             IF GraphIsMultigraph(h.overlay_id)
             THEN <<Min(h.src_id, h.dst_id), Max(h.src_id, h.dst_id), h.ekey>>
                     \in DOMAIN overlay_nx_graphs[h.overlay_id]
             ELSE <<Min(h.src_id, h.dst_id), Max(h.src_id, h.dst_id), 0>>
                     \in DOMAIN overlay_nx_graphs[h.overlay_id]
    /\ last.op = "remove_edge" => ~nonzero(overlay_nx_graphs, last.self)
    /\ last.op = "add_edge" => nonzero(overlay_nx_graphs, last.self)

\* a parallel edge was removed while the other one stays: its handle is false
C4_Witness ==
    /\ last.op = "remove_edge"
    /\ GraphIsMultigraph(last.self.overlay_id)
    /\ ~nonzero(overlay_nx_graphs, last.self)
    /\ nonzero(overlay_nx_graphs, [last.self EXCEPT !.ekey = 1 - @])

\* C6: on a handle whose edge exists, get(key) of a key that is neither an
\* attribute of the handle nor set in the record returns None and raises
\* nothing; on a handle whose edge is gone, get(key) of a stored-attribute key
\* raises KeyError.
C6_MissingKeyVersusMissingEdge ==
    \A h \in Handles, key \in Keys \ HandleAttrs :
        IF nonzero(overlay_nx_graphs, h)
        THEN /\ ~IsRaise(get(overlay_nx_graphs, h, key))
             /\ RecordOf(overlay_nx_graphs, h)[key] = None
                   => get(overlay_nx_graphs, h, key) = None
        ELSE get(overlay_nx_graphs, h, key) = Raise("KeyError")

\* one parallel edge was removed (KeyError), the other still has no bandwidth (None)
C6_Witness ==
    /\ last.op = "remove_edge"
    /\ GraphIsMultigraph(last.self.overlay_id)
    /\ get(overlay_nx_graphs, last.self, "bandwidth") = Raise("KeyError")
    /\ get(overlay_nx_graphs, [last.self EXCEPT !.ekey = 1 - @], "bandwidth") = None

\* C7 as claimed: after set(key, v) on an existing edge, for every key but the
\* reserved port-binding key, get(key) returns v.
C7_RoundTripAnyKey ==
    (last.op = "set" /\ last.res = None /\ last.args[1] # "raw_interfaces") =>
        get(overlay_nx_graphs, last.self, last.args[1]) = last.args[2]

\* C7: after set(key, v) on an existing edge, for every key that is neither
\* the reserved port-binding key nor the name of an attribute of the handle
\* itself, get(key) returns v, on every handle made of the same
\* (overlay_id, src_id, dst_id, ekey).
C7_RoundTrip ==
    (last.op = "set" /\ last.res = None /\ last.args[1] \notin HandleAttrs) =>
        \A h \in Handles :
            ( /\ h.overlay_id = last.self.overlay_id
              /\ h.src_id = last.self.src_id
              /\ h.dst_id = last.self.dst_id
              /\ h.ekey = last.self.ekey )
            => get(overlay_nx_graphs, h, last.args[1]) = last.args[2]

\* bandwidth was set to 100 on an existing edge
C7_Witness ==
    /\ last.op = "set"
    /\ last.res = None
    /\ last.args = <<"bandwidth", PyInt(100)>>
    /\ get(overlay_nx_graphs, last.self, "bandwidth") = PyInt(100)

\* C8 as claimed: set('raw_interfaces', value) leaves the binding map equal to
\* value, as interfaces() shows it, and writes no other entry of the record.
C8_ReservedKeyWritesOnlyPorts ==
    [][(last'.op = "set" /\ last'.res = None /\ last'.args[1] = "raw_interfaces") =>
          LET h == last'.self
              value == last'.args[2]
          IN  /\ RecordOf(overlay_nx_graphs', h)["_ports"] = value
              /\ interfaces(overlay_nx_graphs', h) =
                    <<"list", [i \in 1..Len(Items(value[2])) |->
                                 NmPort(h.overlay_id, Items(value[2])[i][1],
                                        Items(value[2])[i][2])]>>
              /\ \A k \in Keys \ {"_ports"} :
                    RecordOf(overlay_nx_graphs', h)[k] = RecordOf(overlay_nx_graphs, h)[k]
      ]_vars

\* C9 as claimed: after bind_interface(node, intf) with node the source (the
\* destination) of an existing edge, src_int (dst_int) is the interface
\* (overlay_id, node id, intf), and the binding of the other endpoint is unchanged.
C9_BindKeepsOtherEndpoint ==
    [][(last'.op = "bind_interface" /\ last'.res = None) =>
          LET h == last'.self
              n == last'.args[1]
              port == NmPort(h.overlay_id, n, last'.args[2])
          IN  /\ n = h.src_id =>
                    /\ src_int(overlay_nx_graphs', h) = port
                    /\ dst_int(overlay_nx_graphs', h) = dst_int(overlay_nx_graphs, h)
              /\ n = h.dst_id =>
                    /\ dst_int(overlay_nx_graphs', h) = port
                    /\ src_int(overlay_nx_graphs', h) = src_int(overlay_nx_graphs, h)
      ]_vars

\* C9: after bind_interface(node, intf) with node the source (the destination)
\* of an existing edge, src_int (dst_int) is the interface (overlay_id, node
\* id, intf), whether or not the node was bound before; when the other
\* endpoint is another node, its binding is unchanged (on a self-loop both
\* accessors name the node just bound).
C9_BindInterface ==
    [][(last'.op = "bind_interface" /\ last'.res = None) =>
          LET h == last'.self
              n == last'.args[1]
              port == NmPort(h.overlay_id, n, last'.args[2])
          IN  /\ n = h.src_id =>
                    /\ src_int(overlay_nx_graphs', h) = port
                    /\ h.dst_id # n =>
                          dst_int(overlay_nx_graphs', h) = dst_int(overlay_nx_graphs, h)
              /\ n = h.dst_id =>
                    /\ dst_int(overlay_nx_graphs', h) = port
                    /\ h.src_id # n =>
                          src_int(overlay_nx_graphs', h) = src_int(overlay_nx_graphs, h)
      ]_vars

\* the source of an edge between two nodes was bound to eth1; the destination is bound
C9_Witness ==
    /\ last.op = "bind_interface"
    /\ last.res = None
    /\ last.self.src_id # last.self.dst_id
    /\ last.args = <<last.self.src_id, "eth1">>
    /\ src_int(overlay_nx_graphs, last.self)
          = NmPort(last.self.overlay_id, last.self.src_id, "eth1")
    /\ ~IsRaise(dst_int(overlay_nx_graphs, last.self))

\* both endpoints of h's edge are bound
CompleteBinding(g, h) ==
    /\ nonzero(g, h)
    /\ ~IsRaise(src_int(g, h))
    /\ ~IsRaise(dst_int(g, h))

\* C10: on an existing edge with both endpoints bound and edge.get(attr) == X,
\* apply_to_interfaces(attr) leaves src_int.get(attr) == X and
\* dst_int.get(attr) == X and does not change the edge's own record.
C10_ApplyToInterfaces ==
    [][(last'.op = "apply_to_interfaces"
            /\ CompleteBinding(overlay_nx_graphs, last'.self)) =>
          LET h == last'.self
              attr == last'.args[1]
              X == get(overlay_nx_graphs, h, attr)
          IN  /\ last'.res = None
              /\ port_get(port_data', src_int(overlay_nx_graphs, h), attr) = X
              /\ port_get(port_data', dst_int(overlay_nx_graphs, h), attr) = X
              /\ get(overlay_nx_graphs', h, attr) = X
              /\ overlay_nx_graphs' = overlay_nx_graphs
      ]_vars

\* bandwidth 100 was applied to both interfaces of an edge between two nodes
C10_Witness ==
    /\ last.op = "apply_to_interfaces"
    /\ last.res = None
    /\ last.args = <<"bandwidth">>
    /\ last.self.src_id # last.self.dst_id
    /\ get(overlay_nx_graphs, last.self, "bandwidth") = PyInt(100)
    /\ port_get(port_data, src_int(overlay_nx_graphs, last.self), "bandwidth") = PyInt(100)
    /\ port_get(port_data, dst_int(overlay_nx_graphs, last.self), "bandwidth") = PyInt(100)

====
